---- MODULE Spec2Model ----
\* The image-capture-to-analysis pipeline of the food-label front end:
\* the App component's four state fields and its handlers (src/App.tsx), the
\* asynchronous calls they start (fileToGenerativePart, analyzeIngredients in
\* src/services/geminiService.ts) and the render conditions that decide which
\* handler the user can trigger in which view.
EXTENDS Integers, Sequences, FiniteSets, TLC

\* ------------------------------------------------------------------ bounds
\* Staged images plus files of pending handleImagesSelect calls.
MaxImages == 2
\* Pending asynchronous calls: handleImagesSelect calls awaiting
\* fileToGenerativePart plus handleAnalyze calls awaiting analyzeIngredients.
MaxPending == 2
\* Size of the space Math.random().toString(36).substr(2, 9) draws ids from.
MaxId == 2
\* Preview URLs created with URL.createObjectURL in one session.
MaxUrls == 3

\* ------------------------------------------------------------------ values
\* null of a useState<T | null> field; a set field holds <<value>>.
Null == <<>>

Some(x) == <<x>>

ViewStates == {"HOME", "PREVIEW", "ANALYZING", "RESULT"}

Ids == 1..MaxId

\* A file the user can pick: its name and, for an image, the width and
\* height the browser decodes it to.
Picture(name, width, height) == [name |-> name, width |-> width, height |-> height]

FileA == Picture("a.png", 800, 600)

FileB == Picture("b.jpg", 600, 800)

FileBroken == Picture("broken.bin", 0, 0)

\* A file the reader loads but the image decoder refuses (img.onerror fires).
FileNotImage == Picture("notes.txt", 0, 0)

\* The files of the control-flow specifications: two images the browser
\* reads and decodes and one file it cannot read (reader.onerror fires).
GoodFiles == {FileA, FileB}

BadFiles == {FileBroken, FileNotImage}

\* File lists CameraInput hands to onImagesSelected: never empty.
FileLists(files) == UNION {[1..n -> files] : n \in 1..MaxImages}

\* The picks of the control-flow specifications: one file that decodes and
\* one that does not.
PickLists == FileLists({FileA, FileBroken})

\* Error texts (ASCII renderings of the source's messages).
MsgReadFailed == "read-image-failed-please-retry"

MsgNoApiKey == "API Key not set"

MsgNoData == "AI returned no data"

MsgUnknown == "unknown error"

MsgAnalyzeFallback == "error during analysis"

\* Messages of the other two definitions of the service module.
MsgNoApiKeyXai == "API Key not set (xAI)"

MsgNoContent == "AI returned no content"

MsgBadFormat == "AI response format error"

MsgAnalyzeError == "error while analyzing image"

MsgNoResponse == "No response from AI"

MsgCannotAnalyze == "cannot analyze image"

\* What the GoogleGenAI constructor throws when it refuses to be built
\* without a key.
MsgSdkNoKey == "An API Key must be set"

\* ------------------------------------------------------------------ JSON
\* A JSON value is a tagged record; property access on anything but an
\* object that has the key yields undefined, on null it throws.
JUndefined == [t |-> "undefined"]

JNull == [t |-> "null"]

JStr(s) == [t |-> "str", v |-> s]

JNum(n) == [t |-> "num", v |-> n]

\* The number a literal beyond the double range is parsed to (Infinity).
JInfinity == [t |-> "inf"]

JArr(s) == [t |-> "arr", v |-> s]

JObj(f) == [t |-> "obj", v |-> f]

\* parsed.key
Get(j, key) ==
    IF j.t = "obj" /\ key \in DOMAIN j.v THEN j.v[key] ELSE JUndefined

\* JavaScript truthiness, as used by `x || fallback` and `!text`.
Truthy(j) ==
    CASE j.t = "undefined" -> FALSE
      [] j.t = "null" -> FALSE
      [] j.t = "str" -> j.v # ""
      [] j.t = "num" -> j.v # 0
      [] OTHER -> TRUE

\* x || fallback
OrElse(j, fallback) == IF Truthy(j) THEN j ELSE fallback

\* Mutant of ArrayOrEmpty: the list fields are defaulted like the others,
\* `x || []`.
ArrayOrEmptyTruthy(j) == IF Truthy(j) THEN j ELSE JArr(<<>>)

\* Array.isArray(x) ? x : []
ArrayOrEmpty(j) == IF j.t = "arr" THEN j ELSE JArr(<<>>)

DefaultChildSuitability ==
    JObj([status |-> JStr("MODERATE"), reason |-> JStr("insufficient data")])

\* The result record built from the parsed response.
BuildResult(parsed) ==
    [productName |-> OrElse(Get(parsed, "productName"), JStr("unknown product")),
     summary |-> OrElse(Get(parsed, "summary"), JStr("no summary")),
     childSuitability |-> OrElse(Get(parsed, "childSuitability"), DefaultChildSuitability),
     ingredients |-> ArrayOrEmpty(Get(parsed, "ingredients")),
     warnings |-> ArrayOrEmpty(Get(parsed, "warnings")),
     pros |-> ArrayOrEmpty(Get(parsed, "pros"))]

\* ------------------------------------------------------------------ backend
ScenarioA ==
    JObj([productName |-> JStr("Test Snack"),
          summary |-> JStr("ok"),
          childSuitability |-> JObj([status |-> JStr("SAFE"), reason |-> JStr("fine")]),
          ingredients |-> JArr(<<JObj([name |-> JStr("Sugar"),
                                       description |-> JStr("sweetener"),
                                       category |-> JStr("CAUTION")])>>),
          warnings |-> JArr(<<>>),
          pros |-> JArr(<<JStr("No preservatives")>>)])

ScenarioC == JObj([productName |-> JStr("X")])

\* What generateContent can do: reject, or resolve with a response whose
\* text is absent/empty, is not JSON, or is a JSON document.
BackendOutcomes ==
    {[kind |-> "reject", message |-> "fetch failed"],
     [kind |-> "text", text |-> "empty"],
     [kind |-> "text", text |-> "garbage"],
     [kind |-> "text", text |-> "json", json |-> JNull],
     [kind |-> "text", text |-> "json", json |-> ScenarioC],
     [kind |-> "text", text |-> "json", json |-> ScenarioA]}

\* The object JSON.parse builds from the fields given; a field given as
\* undefined is absent from the document.
JsonObject(fields) ==
    JObj([key \in {k \in DOMAIN fields : fields[k].t # "undefined"} |-> fields[key]])

\* Values a response can carry in each field of the schema: absent, of the
\* declared type, or of another type.
ProductNames == {JUndefined, JStr(""), JStr("X"), JNum(7), JInfinity, JArr(<<>>)}

Summaries == {JUndefined, JNull, JStr("ok"), JObj(<<>>)}

ChildSuitabilities ==
    {JUndefined,
     JNull,
     JStr("SAFE"),
     JObj(<<>>),
     JObj([status |-> JStr("SAFE"), reason |-> JStr("fine")]),
     JObj([status |-> JStr("AVOID"), reason |-> JStr("")]),
     JObj([status |-> JStr("BOGUS"), reason |-> JStr("fine")]),
     JObj([status |-> JStr("SAFE")]),
     JObj([reason |-> JStr("fine")])}

IngredientLists ==
    {JUndefined, JNull, JArr(<<>>), JArr(<<JObj([name |-> JStr("Sugar")])>>), JStr("Sugar")}

StringLists == {JUndefined, JArr(<<JStr("w")>>), JStr("w")}

\* The documents JSON.parse(text) can yield: null, a number, a string, an
\* array, or an object over the fields of the schema.
JsonDocs ==
    {JNull, JNum(7), JStr("text"), JArr(<<>>), JArr(<<JNum(1)>>)}
        \cup {JsonObject([productName |-> pn, summary |-> su, childSuitability |-> cs,
                          ingredients |-> ing, warnings |-> wa, pros |-> pr]) :
                 pn \in ProductNames, su \in Summaries, cs \in ChildSuitabilities,
                 ing \in IngredientLists, wa \in StringLists, pr \in StringLists}

\* Every response text the normalizer is applied to.
ResponseTexts ==
    BackendOutcomes \cup {[kind |-> "text", text |-> "json", json |-> doc] : doc \in JsonDocs}

Ok(data) == [ok |-> TRUE, data |-> data]

Err(message) == [ok |-> FALSE, message |-> message]

\* An Error as the App sees it: its message text, and whether the text is
\* the catch block's "analysis failed (<text>) ..." wrapping of it.
Plain(text) == [wrapped |-> FALSE, text |-> text]

Wrapped(text) == [wrapped |-> TRUE, text |-> text]

\* error.message?.includes("API Key") || error.message?.includes("API_KEY")
MentionsApiKey(text) == text \in {MsgNoApiKey, "API_KEY_INVALID"}

\* The body of the try block after the await: `!text` check, JSON.parse,
\* property reads on the parsed value. Yields the result or the message
\* of the error thrown.
TryBody(outcome) ==
    CASE outcome.kind = "reject" -> Err(outcome.message)
      [] outcome.text = "empty" -> Err(MsgNoData)
      [] outcome.text = "garbage" -> Err("Unexpected token")
      [] outcome.json.t \in {"null", "undefined"} -> Err("Cannot read properties of null")
      [] OTHER -> Ok(BuildResult(outcome.json))

\* The catch block: API-key errors pass through, the rest is wrapped.
CatchBlock(text) ==
    IF MentionsApiKey(text)
    THEN Err(Plain(text))
    ELSE Err(Wrapped(IF text = "" THEN MsgUnknown ELSE text))

\* analyzeIngredients for a call that found the API key (sent) or not,
\* given what the backend does with the request.
analyzeIngredients(sent, outcome) ==
    IF ~sent
    THEN Err(Plain(MsgNoApiKey))
    ELSE LET r == TryBody(outcome)
         IN IF r.ok THEN r ELSE CatchBlock(r.message)

\* The second definition of analyzeIngredients in geminiService.ts: no
\* API-key check, a healthScore field, and a catch block that replaces
\* every error by one fixed message.
BuildResultScored(parsed) ==
    [productName |-> OrElse(Get(parsed, "productName"), JStr("unknown product")),
     summary |-> OrElse(Get(parsed, "summary"), JStr("no summary")),
     healthScore |-> IF Get(parsed, "healthScore").t = "num"
                     THEN Get(parsed, "healthScore") ELSE JNum(50),
     childSuitability |-> OrElse(Get(parsed, "childSuitability"), DefaultChildSuitability),
     ingredients |-> ArrayOrEmpty(Get(parsed, "ingredients")),
     warnings |-> ArrayOrEmpty(Get(parsed, "warnings")),
     pros |-> ArrayOrEmpty(Get(parsed, "pros"))]

TryBodyScored(outcome) ==
    CASE outcome.kind = "reject" -> Err(outcome.message)
      [] outcome.text = "empty" -> Err(MsgNoResponse)
      [] outcome.text = "garbage" -> Err("Unexpected token")
      [] outcome.json.t \in {"null", "undefined"} -> Err("Cannot read properties of null")
      [] OTHER -> Ok(BuildResultScored(outcome.json))

\* `built` says whether `new GoogleGenAI(...)` returned; `keyed` whether
\* the key it was given is set. A request without a key is refused.
analyzeIngredientsScored(built, keyed, outcome) ==
    IF ~built
    THEN Err(Plain(MsgSdkNoKey))
    ELSE LET r == TryBodyScored(outcome)
         IN IF r.ok /\ keyed THEN r ELSE Err(Plain(MsgCannotAnalyze))

\* The xAI definition of analyzeIngredients: its own messages for a missing
\* key, missing content and unparseable content; the catch block rethrows
\* the message unwrapped.
TryBodyXai(outcome) ==
    CASE outcome.kind = "reject" -> Err(outcome.message)
      [] outcome.text = "empty" -> Err(MsgNoContent)
      [] outcome.text = "garbage" -> Err(MsgBadFormat)
      [] outcome.json.t \in {"null", "undefined"} -> Err("Cannot read properties of null")
      [] OTHER -> Ok(BuildResult(outcome.json))

analyzeIngredientsXai(sent, outcome) ==
    IF ~sent
    THEN Err(Plain(MsgNoApiKeyXai))
    ELSE LET r == TryBodyXai(outcome)
         IN IF r.ok
            THEN r
            ELSE Err(Plain(IF r.message = "" THEN MsgAnalyzeError ELSE r.message))

\* The definitions of the service module found in the sources: the two of
\* services/geminiService.ts and the xAI one.
Services == {"gemini", "geminiScored", "xai"}

\* err.message || fallback, in handleAnalyze's catch.
ShownMessage(e) == IF ~e.wrapped /\ e.text = "" THEN Plain(MsgAnalyzeFallback) ELSE e

\* ------------------------------------------------------------------ state
VARIABLES
    viewState,       \* useState<ViewState>
    selectedImages,  \* useState<ImageAsset[]>
    result,          \* useState<AnalysisResult | null>
    error,           \* useState<string | null>
    apiKey,          \* whether process.env.API_KEY is set
    service,         \* which definition of the service module App imports
    objectUrls,      \* object URLs created and not revoked
    adds,            \* handleImagesSelect calls awaiting fileToGenerativePart
    inflight,        \* handleAnalyze calls awaiting analyzeIngredients
    lastOp,          \* history: the handler or continuation that ran last
    lastOutcome      \* history: what the backend answered, or the canvas the
                     \* conversion drew, if the last step was the
                     \* continuation of such a call

vars ==
    <<viewState, selectedImages, result, error, apiKey, service, objectUrls, adds,
      inflight, lastOp, lastOutcome>>

pipeline == <<viewState, selectedImages, result, error>>

Init ==
    /\ viewState = "HOME"
    /\ selectedImages = <<>>
    /\ result = Null
    /\ error = Null
    /\ apiKey \in BOOLEAN
    /\ service \in Services
    /\ objectUrls = 0
    /\ adds = <<>>
    /\ inflight = <<>>
    /\ lastOp = "init"
    /\ lastOutcome = Null

\* ------------------------------------------------------------------ helpers
RemoveAt(s, k) == SubSeq(s, 1, k - 1) \o SubSeq(s, k + 1, Len(s))

RECURSIVE SumFiles(_)
SumFiles(calls) ==
    IF calls = <<>> THEN 0 ELSE Len(Head(calls).files) + SumFiles(Tail(calls))

\* Images pushed by pending handleImagesSelect calls.
RECURSIVE SumPushed(_)
SumPushed(calls) ==
    IF calls = <<>> THEN 0 ELSE Len(Head(calls).newImages) + SumPushed(Tail(calls))

\* Images staged or to be staged by a pending handleImagesSelect call.
Load == Len(selectedImages) + SumFiles(adds)

\* Asynchronous calls that have not settled.
Pending == Len(adds) + Len(inflight)

\* The backend's answer to a call, for the history: none when the call
\* stopped at the API-key check and sent nothing.
Answer(call, outcome) == IF call.sent THEN Some(outcome) ELSE Null

\* The conversion resolves for a file that can be read and decoded, and
\* rejects for one that cannot be read (reader.onerror) or cannot be
\* decoded (img.onerror).
Decodes(file) == file \notin BadFiles

\* reader.readAsDataURL ends with the load event, not the error event.
Reads(file) == file # FileBroken

\* file.type
FileType(file) == IF file.name = "a.png" THEN "image/png" ELSE "image/jpeg"

\* The second definition of fileToGenerativePart in geminiService.ts: the
\* file's own bytes under the file's own media type.
fileToGenerativePartAsIs(file) == [mimeType |-> FileType(file), data |-> <<"raw", file>>]

\* The longest edge of the canvas the image is drawn on.
MAX_DIMENSION == 1024

RECURSIVE IsPowerOfTwo(_)
IsPowerOfTwo(n) == n = 1 \/ (n > 1 /\ n % 2 = 0 /\ IsPowerOfTwo(n \div 2))

\* How far below the true quotient `edge * (MAX_DIMENSION / longer)` can
\* land in double arithmetic before the canvas truncates it: MAX_DIMENSION /
\* longer is rounded unless longer is a power of two, and a product whose
\* true value is a whole number may then come out just below it.
Slack == {0, 1}

\* `edge *= MAX_DIMENSION / longer`, assigned to canvas.width or
\* canvas.height, which keeps the integer part.
ScaledEdge(edge, longer, slack) ==
    LET whole == (edge * MAX_DIMENSION) \div longer
    IN IF (edge * MAX_DIMENSION) % longer = 0 /\ ~IsPowerOfTwo(longer)
       THEN whole - slack
       ELSE whole

\* Mutant of ScaledSize: the longer edge is cut to MAX_DIMENSION and the
\* other edge is left as it is.
ScaledSizeCropped(width, height, slack) ==
    IF width > height
    THEN IF width > MAX_DIMENSION THEN <<MAX_DIMENSION, height>> ELSE <<width, height>>
    ELSE IF height > MAX_DIMENSION THEN <<width, MAX_DIMENSION>> ELSE <<width, height>>

\* Mutant of ScaledSize: every image is scaled to MAX_DIMENSION, smaller
\* ones included.
ScaledSizeAlways(width, height, slack) ==
    IF width > height
    THEN <<MAX_DIMENSION, ScaledEdge(height, width, slack)>>
    ELSE <<ScaledEdge(width, height, slack), MAX_DIMENSION>>

\* The canvas size computed from img.width and img.height.
ScaledSize(width, height, slack) ==
    IF width > height
    THEN IF width > MAX_DIMENSION
         THEN <<MAX_DIMENSION, ScaledEdge(height, width, slack)>>
         ELSE <<width, height>>
    ELSE IF height > MAX_DIMENSION
         THEN <<ScaledEdge(width, height, slack), MAX_DIMENSION>>
         ELSE <<width, height>>

\* canvas.toDataURL('image/jpeg', 0.8).split(',')[1]: the JPEG of the file
\* drawn at the canvas size; a canvas without pixels gives "data:,", whose
\* part after the comma is the empty string (<<>>).
Base64OfCanvas(file, size) ==
    IF size[1] = 0 \/ size[2] = 0 THEN <<>> ELSE <<"jpeg80", file, size[1], size[2]>>

\* What fileToGenerativePart resolves with.
fileToGenerativePart(file, slack) ==
    [mimeType |-> "image/jpeg",
     data |-> Base64OfCanvas(file, ScaledSize(file.width, file.height, slack))]

\* The ImageAsset pushed for a converted file (its preview URL is the
\* rendering layer's and is not modelled here).
\* The part the imported fileToGenerativePart resolves with.
Converted(file, slack) ==
    IF service = "geminiScored"
    THEN fileToGenerativePartAsIs(file)
    ELSE fileToGenerativePart(file, slack)

\* The canvas the conversion drew the file on, for the history; the second
\* definition of fileToGenerativePart draws none.
Drawn(file, slack) ==
    IF service = "geminiScored"
    THEN Null
    ELSE Some([kind |-> "canvas", file |-> file,
               size |-> ScaledSize(file.width, file.height, slack)])

\* Every part the conversion of a file can resolve with.
Parts(file) == {Converted(file, slack) : slack \in Slack}

ImageAsset(id, part) == [id |-> id, data |-> part.data, mimeType |-> part.mimeType]

\* What the imported analyzeIngredients settles with.
Analysis(call, outcome) ==
    CASE service = "gemini" -> analyzeIngredients(call.sent, outcome)
      [] service = "geminiScored" -> analyzeIngredientsScored(call.sent, apiKey, outcome)
      [] service = "xai" -> analyzeIngredientsXai(call.sent, outcome)

\* Whether a call leaves the client: not when the key check fails; without
\* a key and without a check it is up to the GoogleGenAI constructor.
Issued == IF service = "geminiScored" /\ ~apiKey THEN BOOLEAN ELSE {apiKey}

\* selectedImages.map(img => ({mimeType, data}))
Payload(images) ==
    [i \in DOMAIN images |-> [mimeType |-> images[i].mimeType, data |-> images[i].data]]

\* ------------------------------------------------------------------ render
\* <CameraInput> is rendered in the HOME view and in the PREVIEW gallery.
CameraInputRendered ==
    \/ viewState = "HOME"
    \/ viewState = "PREVIEW" /\ Len(selectedImages) > 0

\* The PREVIEW block: per-image remove buttons, analyze, start over.
PreviewRendered == viewState = "PREVIEW" /\ Len(selectedImages) > 0

\* The back button of the top bar (and the RESULT view's bottom button).
ResetRendered == viewState # "HOME"

\* ------------------------------------------------------------------ handlers
\* handleImagesSelect up to its first await: the call is pending on
\* fileToGenerativePart(files[1]).
handleImagesSelect(files) ==
    /\ Pending < MaxPending
    /\ Load + Len(files) <= MaxImages
    /\ adds' = Append(adds, [files |-> files, newImages |-> <<>>])
    /\ lastOp' = "select"
    /\ lastOutcome' = Null
    /\ UNCHANGED <<viewState, selectedImages, result, error, apiKey, service, objectUrls, inflight>>

\* Mutant of ImagesSelectResolve: the batch is committed in front of the
\* staged images, `[...newImages, ...prev]`.
ImagesSelectResolvePrepends(k, id) ==
    LET call == adds[k]
        file == call.files[Len(call.newImages) + 1]
    IN /\ Decodes(file)
       /\ objectUrls < MaxUrls
       /\ objectUrls' = objectUrls + 1
       /\ \E slack \in Slack :
              LET newImages == Append(call.newImages,
                                      ImageAsset(id, Converted(file, slack)))
              IN IF Len(newImages) < Len(call.files)
                 THEN /\ adds' = [adds EXCEPT ![k].newImages = newImages]
                      /\ lastOp' = "pushed"
                      /\ lastOutcome' = Drawn(file, slack)
                      /\ UNCHANGED <<viewState, selectedImages, error>>
                 ELSE /\ selectedImages' = newImages \o selectedImages
                      /\ viewState' = "PREVIEW"
                      /\ error' = Null
                      /\ adds' = RemoveAt(adds, k)
                      /\ lastOp' = "staged"
                      /\ lastOutcome' = Drawn(file, slack)
       /\ UNCHANGED <<result, apiKey, service, inflight>>

\* The continuation of pending call k when its fileToGenerativePart
\* resolves: push the image; after the last file, commit the batch.
ImagesSelectResolve(k, id) ==
    LET call == adds[k]
        file == call.files[Len(call.newImages) + 1]
    IN /\ Decodes(file)
       /\ objectUrls < MaxUrls
       /\ objectUrls' = objectUrls + 1
       /\ \E slack \in Slack :
              LET newImages == Append(call.newImages,
                                      ImageAsset(id, Converted(file, slack)))
              IN IF Len(newImages) < Len(call.files)
                 THEN /\ adds' = [adds EXCEPT ![k].newImages = newImages]
                      /\ lastOp' = "pushed"
                      /\ lastOutcome' = Drawn(file, slack)
                      /\ UNCHANGED <<viewState, selectedImages, error>>
                 ELSE /\ selectedImages' = selectedImages \o newImages
                      /\ viewState' = "PREVIEW"
                      /\ error' = Null
                      /\ adds' = RemoveAt(adds, k)
                      /\ lastOp' = "staged"
                      /\ lastOutcome' = Drawn(file, slack)
       /\ UNCHANGED <<result, apiKey, service, inflight>>

\* Mutant of ImagesSelectReject: the catch block stages the images the
\* call had converted before the failing file.
ImagesSelectRejectKeepsDecoded(k) ==
    LET call == adds[k]
        file == call.files[Len(call.newImages) + 1]
    IN /\ ~Decodes(file)
       /\ selectedImages' = selectedImages \o call.newImages
       /\ error' = Some(Plain(MsgReadFailed))
       /\ adds' = RemoveAt(adds, k)
       /\ lastOp' = IF call.newImages = <<>> THEN "readFailed" ELSE "readFailedLate"
       /\ lastOutcome' = Null
       /\ UNCHANGED <<viewState, result, apiKey, service, objectUrls, inflight>>

\* The continuation of pending call k when its fileToGenerativePart
\* rejects: the catch block.
ImagesSelectReject(k) ==
    LET call == adds[k]
        file == call.files[Len(call.newImages) + 1]
    IN /\ ~Decodes(file)
       /\ error' = Some(Plain(MsgReadFailed))
       /\ adds' = RemoveAt(adds, k)
       /\ lastOp' = IF call.newImages = <<>> THEN "readFailed" ELSE "readFailedLate"
       /\ lastOutcome' = Null
       /\ UNCHANGED <<viewState, selectedImages, result, apiKey, service, objectUrls, inflight>>

\* Mutant of handleRemoveImage: the payload of a pending call is the staged
\* array itself instead of the copy made by selectedImages.map, so the
\* removal reaches the calls in flight.
handleRemoveImageShared(id) ==
    LET newImages == SelectSeq(selectedImages, LAMBDA img : img.id # id)
    IN /\ selectedImages' = newImages
       /\ viewState' = IF Len(newImages) = 0 THEN "HOME" ELSE viewState
       /\ inflight' = [k \in DOMAIN inflight |->
                          [inflight[k] EXCEPT !.payload = Payload(newImages)]]
       /\ lastOp' = "remove"
       /\ lastOutcome' = Null
       /\ UNCHANGED <<result, error, apiKey, service, objectUrls, adds>>

handleRemoveImage(id) ==
    LET newImages == SelectSeq(selectedImages, LAMBDA img : img.id # id)
    IN /\ selectedImages' = newImages
       /\ viewState' = IF Len(newImages) = 0 THEN "HOME" ELSE viewState
       /\ lastOp' = "remove"
       /\ lastOutcome' = Null
       /\ UNCHANGED <<result, error, apiKey, service, objectUrls, adds, inflight>>

\* Mutant of handleAnalyze: the `selectedImages.length === 0` early return
\* is missing.
handleAnalyzeUnguarded ==
    /\ Pending < MaxPending
    /\ viewState' = "ANALYZING"
    /\ error' = Null
    /\ \E sent \in Issued :
           inflight' = Append(inflight, [payload |-> Payload(selectedImages),
                                         sent |-> sent])
    /\ lastOp' = "analyze"
    /\ lastOutcome' = Null
    /\ UNCHANGED <<selectedImages, result, apiKey, service, objectUrls, adds>>

\* handleAnalyze up to its await: the call is pending on analyzeIngredients.
handleAnalyze ==
    IF Len(selectedImages) = 0
    THEN /\ lastOp' = "analyzeNoop"
         /\ lastOutcome' = Null
         /\ UNCHANGED <<viewState, selectedImages, result, error, apiKey, service, objectUrls, adds, inflight>>
    ELSE /\ Pending < MaxPending
         /\ viewState' = "ANALYZING"
         /\ error' = Null
         /\ \E sent \in Issued :
                inflight' = Append(inflight, [payload |-> Payload(selectedImages),
                                              sent |-> sent])
         /\ lastOp' = "analyze"
         /\ lastOutcome' = Null
         /\ UNCHANGED <<selectedImages, result, apiKey, service, objectUrls, adds>>

\* Mutant of AnalyzeSettle: the catch block sets the error but does not
\* roll the view back to PREVIEW.
AnalyzeSettleNoRollback(k, outcome) ==
    LET r == Analysis(inflight[k], outcome)
    IN /\ IF r.ok
          THEN /\ result' = Some(r.data)
               /\ viewState' = "RESULT"
               /\ lastOp' = "analyzeOk"
               /\ lastOutcome' = Answer(inflight[k], outcome)
               /\ UNCHANGED error
          ELSE /\ error' = Some(ShownMessage(r.message))
               /\ lastOp' = "analyzeFailed"
               /\ lastOutcome' = Answer(inflight[k], outcome)
               /\ UNCHANGED <<result, viewState>>
       /\ inflight' = RemoveAt(inflight, k)
       /\ UNCHANGED <<selectedImages, apiKey, service, objectUrls, adds>>

\* The continuation of call k after `await analyzeIngredients(payload)`.
AnalyzeSettle(k, outcome) ==
    LET r == Analysis(inflight[k], outcome)
    IN /\ IF r.ok
          THEN /\ result' = Some(r.data)
               /\ viewState' = "RESULT"
               /\ lastOp' = "analyzeOk"
               /\ lastOutcome' = Answer(inflight[k], outcome)
               /\ UNCHANGED error
          ELSE /\ error' = Some(ShownMessage(r.message))
               /\ viewState' = "PREVIEW"
               /\ lastOp' = "analyzeFailed"
               /\ lastOutcome' = Answer(inflight[k], outcome)
               /\ UNCHANGED result
       /\ inflight' = RemoveAt(inflight, k)
       /\ UNCHANGED <<selectedImages, apiKey, service, objectUrls, adds>>

\* Mutant of handleReset: setError(null) is missing.
handleResetKeepsError ==
    /\ viewState' = "HOME"
    /\ selectedImages' = <<>>
    /\ result' = Null
    /\ lastOp' = "reset"
    /\ lastOutcome' = Null
    /\ UNCHANGED <<error, apiKey, service, objectUrls, adds, inflight>>

handleReset ==
    /\ viewState' = "HOME"
    /\ selectedImages' = <<>>
    /\ result' = Null
    /\ error' = Null
    /\ lastOp' = "reset"
    /\ lastOutcome' = Null
    /\ UNCHANGED <<apiKey, service, objectUrls, adds, inflight>>

\* ------------------------------------------------------------------ steps
UserSelect == CameraInputRendered /\ \E files \in PickLists : handleImagesSelect(files)

UserRemove ==
    /\ PreviewRendered
    /\ \E i \in DOMAIN selectedImages : handleRemoveImage(selectedImages[i].id)

UserAnalyze == PreviewRendered /\ handleAnalyze

UserReset == ResetRendered /\ handleReset

FileResolves == \E k \in DOMAIN adds : \E id \in Ids : ImagesSelectResolve(k, id)

FileRejects == \E k \in DOMAIN adds : ImagesSelectReject(k)

BackendSettles ==
    \E k \in DOMAIN inflight : \E outcome \in BackendOutcomes : AnalyzeSettle(k, outcome)

\* The app as rendered: a handler runs only when its control is on screen.
Next ==
    \/ UserSelect
    \/ UserRemove
    \/ UserAnalyze
    \/ UserReset
    \/ FileResolves
    \/ FileRejects
    \/ BackendSettles

Spec == Init /\ [][Next]_vars

\* Every outstanding backend call eventually resolves or rejects.
FairSpec == Spec /\ WF_vars(BackendSettles)

\* The file an image was made from.
FileOf(img) == img.data[2]

\* The files staged or waiting in a pending handleImagesSelect call.
Present ==
    {FileOf(selectedImages[i]) : i \in DOMAIN selectedImages}
        \cup UNION {{adds[k].files[i] : i \in DOMAIN adds[k].files} : k \in DOMAIN adds}

\* A user who picks the files in the order of their names: a.png before
\* b.jpg, and none again while it or a later one is staged or pending.
PickRank(file) == IF file.name = "a.png" THEN 1 ELSE 2

OrderedPicks ==
    {files \in FileLists(GoodFiles) :
        /\ \A i, j \in DOMAIN files : i < j => PickRank(files[i]) < PickRank(files[j])
        /\ \A f \in Present : PickRank(f) < PickRank(files[1])}

UserSelectOrdered ==
    CameraInputRendered /\ \E files \in OrderedPicks : handleImagesSelect(files)

\* The app as rendered, with files that all decode, picked in name order.
NextOrdered ==
    \/ UserSelectOrdered
    \/ UserRemove
    \/ UserAnalyze
    \/ UserReset
    \/ FileResolves
    \/ BackendSettles

SpecOrdered == Init /\ [][NextOrdered]_vars

\* The normalizer on its own: one image is staged, its request has been
\* sent, and the backend answers with any of the response texts.
InitNormalize ==
    /\ service \in Services
    /\ viewState = "ANALYZING"
    /\ selectedImages = <<ImageAsset(1, Converted(FileA, 0))>>
    /\ result = Null
    /\ error = Null
    /\ apiKey = TRUE
    /\ objectUrls = 1
    /\ adds = <<>>
    /\ inflight = <<[payload |-> Payload(selectedImages), sent |-> TRUE]>>
    /\ lastOp = "analyze"
    /\ lastOutcome = Null

ResponseArrives ==
    \E k \in DOMAIN inflight : \E outcome \in ResponseTexts : AnalyzeSettle(k, outcome)

NextNormalize == ResponseArrives

SpecNormalize == InitNormalize /\ [][NextNormalize]_vars

\* The service module as an interface: analyzeIngredients called with any
\* sequence of converted images, the empty one included, up to its await.
ImageLists ==
    UNION {[1..n -> UNION {Parts(file) : file \in GoodFiles}] : n \in 0..MaxImages}

analyzeIngredientsCalled(images) ==
    /\ Pending < MaxPending
    /\ \E sent \in Issued :
           inflight' = Append(inflight, [payload |-> images, sent |-> sent])
    /\ lastOp' = "called"
    /\ lastOutcome' = Null
    /\ UNCHANGED <<viewState, selectedImages, result, error, apiKey, service, objectUrls, adds>>

ServiceCalled == \E images \in ImageLists : analyzeIngredientsCalled(images)

NextService == ServiceCalled

SpecService == Init /\ [][NextService]_vars

\* The conversion on its own: in a fresh session the user picks one image
\* of any of the sizes below and fileToGenerativePart, in the definition
\* that draws on a canvas, converts it.
EdgeLengths == {1, 2, 3, 512, 1023, 1024, 1025, 2048, 3000, 3072}

Pictures == {Picture("photo.jpg", width, height) : width, height \in EdgeLengths}

InitResize == Init /\ service # "geminiScored"

UserSelectPicture ==
    /\ CameraInputRendered
    /\ selectedImages = <<>>
    /\ adds = <<>>
    /\ \E picture \in Pictures : handleImagesSelect(<<picture>>)

NextResize ==
    \/ UserSelectPicture
    \/ FileResolves
    \/ UserReset

SpecResize == InitResize /\ [][NextResize]_vars

\* The handlers as an interface: any handler at any time.
CallSelect == \E files \in PickLists : handleImagesSelect(files)

CallRemove == \E id \in Ids : handleRemoveImage(id)

CallAnalyze == handleAnalyze

CallReset == handleReset

NextHandlers ==
    \/ CallSelect
    \/ CallRemove
    \/ CallAnalyze
    \/ CallReset
    \/ FileResolves
    \/ FileRejects
    \/ BackendSettles

SpecHandlers == Init /\ [][NextHandlers]_vars

\* ------------------------------------------------------------------ claims
\* C1: if reset() runs while an analyze() request is in flight, the
\* response that arrives next is ignored: the step on which it arrives
\* leaves phase (HOME), stagedImages (empty), result (unset) and lastError
\* (unset) as reset() left them.
C1_StaleResponseIgnored ==
    [][(lastOp = "reset" /\ lastOp' \in {"analyzeOk", "analyzeFailed"})
         => UNCHANGED pipeline]_vars

\* C2: in every reachable state, result is set if and only if phase is RESULT.
C2_ResultIffResultPhase == (result # Null) <=> (viewState = "RESULT")

\* C3: in every reachable state, stagedImages is non-empty whenever phase
\* is PREVIEW or ANALYZING.
C3_StagedWhilePreviewOrAnalyzing ==
    viewState \in {"PREVIEW", "ANALYZING"} => Len(selectedImages) > 0

\* Requests handed to the backend that have not been answered.
Outstanding == {k \in DOMAIN inflight : inflight[k].sent}

\* C4: at most one backend analysis request is outstanding at any time.
C4_SingleOutstandingRequest == Cardinality(Outstanding) <= 1

\* C5: provided every outstanding backend call eventually resolves or
\* rejects, phase ANALYZING always leads to a phase other than ANALYZING.
C5_AnalyzingEventuallyLeft == (viewState = "ANALYZING") ~> (viewState # "ANALYZING")

\* C5 witness: an analysis has failed and the view has left ANALYZING.
C5_Witness == lastOp = "analyzeFailed" /\ viewState = "PREVIEW" /\ inflight = <<>>

\* C6: every step that changes phase to HOME leaves stagedImages empty,
\* result unset and lastError unset.
C6_EnteringHomeClearsAll ==
    [][(viewState # "HOME" /\ viewState' = "HOME")
         => (selectedImages' = <<>> /\ result' = Null /\ error' = Null)]_vars

\* C7: when an analyze() call settles, a success leaves phase RESULT with
\* result set, and a failure leaves phase PREVIEW with lastError set to a
\* non-empty message and result unset.
C7_AnalyzeOutcome ==
    /\ lastOp = "analyzeOk" => (viewState = "RESULT" /\ result # Null)
    /\ lastOp = "analyzeFailed" =>
         /\ viewState = "PREVIEW"
         /\ error # Null /\ error[1].text # ""
         /\ result = Null

\* C8: analyze() invoked while stagedImages is empty changes none of phase,
\* stagedImages, result, lastError and issues no request.
C8_AnalyzeEmptyIsNoop ==
    [][(Len(selectedImages) = 0 /\ lastOp' \in {"analyze", "analyzeNoop"})
         => UNCHANGED <<pipeline, inflight>>]_vars

\* C8 witness: analyze() has run on an empty staging list.
C8_Witness == lastOp = "analyzeNoop" /\ Len(selectedImages) = 0

\* C9: right after reset(), whatever the phase it was invoked in and
\* whatever calls are pending, phase is HOME, stagedImages is empty and
\* result and lastError are unset.
C9_ResetReachesHome ==
    lastOp = "reset" =>
        /\ viewState = "HOME"
        /\ selectedImages = <<>>
        /\ result = Null
        /\ error = Null

\* C9 witness: reset() has run while a normalization and a backend call
\* were both pending.
C9_Witness == lastOp = "reset" /\ adds # <<>> /\ inflight # <<>>

AllowedPhaseChanges ==
    {<<"HOME", "PREVIEW">>, <<"PREVIEW", "ANALYZING">>, <<"ANALYZING", "RESULT">>,
     <<"ANALYZING", "PREVIEW">>, <<"PREVIEW", "HOME">>}

\* C10: every change of phase is HOME to PREVIEW, PREVIEW to ANALYZING,
\* ANALYZING to RESULT, ANALYZING to PREVIEW, PREVIEW to HOME, or a
\* reset() to HOME.
C10_AllowedTransitions ==
    [][\/ viewState' = viewState
       \/ <<viewState, viewState'>> \in AllowedPhaseChanges
       \/ (lastOp' = "reset" /\ viewState' = "HOME")]_vars

\* C11: phase is ANALYZING exactly while a backend analysis call is
\* pending: whenever a call is pending the phase is ANALYZING, and whenever
\* the phase is ANALYZING a call is pending, also when an addImages call
\* that started earlier completes during the round-trip.
C11_AnalyzingIffRequestInFlight ==
    /\ Outstanding # {} => viewState = "ANALYZING"
    /\ viewState = "ANALYZING" => inflight # <<>>

\* C12: an addImages(files) call in which every file normalizes, invoked in
\* HOME or PREVIEW, appends one staged image per file to the end of
\* stagedImages in the order of files, keeps the images staged before and
\* their order, and sets phase to PREVIEW.
C12_AddImagesAppendsInOrder ==
    [][lastOp' = "staged" =>
        \E k \in DOMAIN adds :
            LET files == adds[k].files
                n == Len(selectedImages)
            IN /\ adds' = RemoveAt(adds, k)
               /\ Len(selectedImages') = n + Len(files)
               /\ SubSeq(selectedImages', 1, n) = selectedImages
               /\ \A i \in DOMAIN files :
                      \E part \in Parts(files[i]) :
                          /\ selectedImages'[n + i].data = part.data
                          /\ selectedImages'[n + i].mimeType = part.mimeType
               /\ viewState' = "PREVIEW"]_vars

\* C12 witness: a call has just committed and a.png and b.jpg are staged in
\* the order they were picked in.
C12_Witness ==
    /\ lastOp = "staged"
    /\ viewState = "PREVIEW"
    /\ Len(selectedImages) = 2
    /\ FileOf(selectedImages[1]) = FileA
    /\ FileOf(selectedImages[2]) = FileB

\* C13: when the normalization of a file of an addImages(files) call fails,
\* the call is all-or-nothing: it ends without appending any image, also
\* none normalized before the failing one; stagedImages and phase are
\* unchanged and lastError is set to an error message.
C13_FailedAddIsAllOrNothing ==
    [][lastOp' \in {"readFailed", "readFailedLate"} =>
        /\ \E k \in DOMAIN adds : adds' = RemoveAt(adds, k)
        /\ selectedImages' = selectedImages
        /\ viewState' = viewState
        /\ error' # Null]_vars

\* C13 witness: a call has failed on a file after it had normalized an
\* earlier one of the same pick.
C13_Witness == lastOp = "readFailedLate" /\ error = Some(Plain(MsgReadFailed))

\* C14: removeImage(id) of a staged image removes that image and keeps all
\* other staged images in their relative order; the phase becomes HOME when
\* the list becomes empty and remains PREVIEW otherwise.
C14_RemoveImageRemovesOne ==
    [][lastOp' = "remove" =>
        /\ \E i \in DOMAIN selectedImages : selectedImages' = RemoveAt(selectedImages, i)
        /\ viewState' = IF selectedImages' = <<>> THEN "HOME" ELSE "PREVIEW"]_vars

\* C15: the images carried by a backend request are in capture order: the
\* i-th image part of the request is the i-th image the user picked among
\* those staged, also when two addImages calls overlap in time. (In
\* SpecOrdered the user picks a.png before b.jpg, so capture order is the
\* order of PickRank.)
C15_RequestInCaptureOrder ==
    \A k \in Outstanding :
        \A i, j \in DOMAIN inflight[k].payload :
            i < j => PickRank(FileOf(inflight[k].payload[i]))
                         < PickRank(FileOf(inflight[k].payload[j]))

\* The last step was the continuation of a call whose response text parsed
\* as JSON, and Document is what it parsed to.
AnsweredJson ==
    /\ lastOutcome # Null
    /\ lastOutcome[1].kind = "text"
    /\ lastOutcome[1].text = "json"

Document == lastOutcome[1].json

IsPresent(j) == j.t # "undefined"

\* C16: the result normalizer is total on JSON: for every response text
\* that parses as JSON (an object, but also null, a number, a string or an
\* array) it raises no error and returns a result in which productName,
\* summary, childSuitability.status, childSuitability.reason, ingredients,
\* warnings and pros are all present.
C16_NormalizerTotal ==
    AnsweredJson =>
        /\ lastOp = "analyzeOk"
        /\ result # Null
        /\ IsPresent(result[1].productName)
        /\ IsPresent(result[1].summary)
        /\ IsPresent(Get(result[1].childSuitability, "status"))
        /\ IsPresent(Get(result[1].childSuitability, "reason"))
        /\ IsPresent(result[1].ingredients)
        /\ IsPresent(result[1].warnings)
        /\ IsPresent(result[1].pros)

StatusValues == {"SAFE", "MODERATE", "AVOID"}

IsStatus(j) == j.t = "str" /\ j.v \in StatusValues

\* C17: for every parseable response that yields a result, the normalized
\* childSuitability.status is one of SAFE, MODERATE, AVOID, and it is
\* MODERATE whenever the backend's status is missing or is not one of those
\* three values (also when childSuitability is present as an object without
\* a valid status).
C17_StatusIsEnumMember ==
    (AnsweredJson /\ lastOp = "analyzeOk") =>
        LET status == Get(result[1].childSuitability, "status")
            given == Get(Get(Document, "childSuitability"), "status")
        IN /\ IsStatus(status)
           /\ ~IsStatus(given) => status = JStr("MODERATE")

\* C18: for every parseable response that yields a result, the normalized
\* childSuitability.reason is the "insufficient data" sentinel whenever the
\* backend's reason is missing, also when childSuitability is present as an
\* object that has no reason field.
C18_ReasonDefaulted ==
    (AnsweredJson /\ lastOp = "analyzeOk") =>
        LET reason == Get(result[1].childSuitability, "reason")
            given == Get(Get(Document, "childSuitability"), "reason")
        IN ~IsPresent(given) => reason = JStr("insufficient data")

\* C19: for every parseable response that yields a result, the normalized
\* productName and summary are strings: productName is the "unknown
\* product" sentinel when the backend's value is missing or blank, summary
\* is the "no summary" sentinel when missing, and a backend value of another
\* type (number, object, array) never appears in either field.
C19_NameAndSummaryAreStrings ==
    (AnsweredJson /\ lastOp = "analyzeOk") =>
        LET name == Get(Document, "productName")
            summary == Get(Document, "summary")
        IN /\ result[1].productName.t = "str"
           /\ result[1].summary.t = "str"
           /\ (~IsPresent(name) \/ name = JStr("")) =>
                  result[1].productName = JStr("unknown product")
           /\ ~IsPresent(summary) => result[1].summary = JStr("no summary")

ListFields == {"ingredients", "warnings", "pros"}

\* C20: for every parseable object response, each of ingredients, warnings
\* and pros in the normalized result is a sequence: the backend's value
\* when that value is a sequence, and the empty sequence when it is absent
\* or of any other type.
C20_ListsAreSequences ==
    (AnsweredJson /\ Document.t = "obj") =>
        /\ lastOp = "analyzeOk"
        /\ \A key \in ListFields :
              LET given == Get(Document, key)
              IN result[1][key] = IF given.t = "arr" THEN given ELSE JArr(<<>>)

\* C20 witness: a response whose ingredients is a string, whose warnings is
\* a list and whose pros is absent has been normalized.
C20_Witness ==
    /\ AnsweredJson
    /\ Document.t = "obj"
    /\ Get(Document, "ingredients") = JStr("Sugar")
    /\ Get(Document, "warnings") = JArr(<<JStr("w")>>)
    /\ ~IsPresent(Get(Document, "pros"))
    /\ result # Null
    /\ result[1].ingredients = JArr(<<>>)
    /\ result[1].warnings = JArr(<<JStr("w")>>)
    /\ result[1].pros = JArr(<<>>)

EmptyText == [kind |-> "text", text |-> "empty"]

GarbageText == [kind |-> "text", text |-> "garbage"]

\* The error the user is shown when the imported service answers a sent
\* request with the given outcome.
ShownFor(outcome) == Some(ShownMessage(Analysis([sent |-> TRUE], outcome).message))

\* C21: the result normalizer fails with an empty-response error when the
\* response text is empty or absent and with a malformed-response error
\* when the text is not parseable as JSON; the two are distinguishable
\* errors and in neither case is a result returned.
C21_EmptyAndMalformedDistinct ==
    /\ lastOutcome = Some(EmptyText) =>
           /\ lastOp = "analyzeFailed"
           /\ result = Null
           /\ error # Null
           /\ error # ShownFor(GarbageText)
    /\ lastOutcome = Some(GarbageText) =>
           /\ lastOp = "analyzeFailed"
           /\ result = Null
           /\ error # Null
           /\ error # ShownFor(EmptyText)

\* The configuration message of the key check.
ConfigMessage == IF service = "xai" THEN MsgNoApiKeyXai ELSE MsgNoApiKey

\* C22: when the API credential is absent from the environment, analyze()
\* fails with the configuration error before any backend request is
\* issued, and the user sees that configuration message as lastError.
C22_MissingKeyIsConfigError ==
    ~apiKey =>
        /\ Outstanding = {}
        /\ lastOp = "analyzeFailed" => error = Some(Plain(ConfigMessage))

\* C23: the request builder called with an empty image sequence fails with
\* an empty-input error and issues no backend request; hence no backend
\* request is ever issued that carries zero images.
C23_NoRequestWithoutImages == \A k \in Outstanding : inflight[k].payload # <<>>

\* C24: every staged image has a non-empty encodedBytes payload, for every
\* decodable input image of any width and height of at least 1 (including
\* images so elongated that the scaled shorter edge falls below 1).
C24_EncodedBytesNonEmpty ==
    \A i \in DOMAIN selectedImages : selectedImages[i].data # <<>>

\* C25: the mediaType of every normalizer output, and so of every staged
\* image and of every image part of a request, is the fixed lossy format
\* image/jpeg, whatever the media type of the picked file.
C25_MediaTypeIsJpeg ==
    /\ \A k \in DOMAIN adds : \A i \in DOMAIN adds[k].newImages :
           adds[k].newImages[i].mimeType = "image/jpeg"
    /\ \A i \in DOMAIN selectedImages : selectedImages[i].mimeType = "image/jpeg"
    /\ \A k \in DOMAIN inflight : \A i \in DOMAIN inflight[k].payload :
           inflight[k].payload[i].mimeType = "image/jpeg"

\* The last step was the continuation of a conversion that drew the file
\* DrawnFile on a canvas of DrawnSize.
CanvasDrawn == lastOutcome # Null /\ lastOutcome[1].kind = "canvas"

DrawnFile == lastOutcome[1].file

DrawnSize == lastOutcome[1].size

Longer(file) == IF file.width > file.height THEN file.width ELSE file.height

Distance(a, b) == IF a > b THEN a - b ELSE b - a

\* C26: for every input image whose longer edge is at most the cap of 1024,
\* the normalizer's output width and height equal the input width and
\* height (no upscaling, no change).
C26_SmallImagesKeepSize ==
    (CanvasDrawn /\ Longer(DrawnFile) <= MAX_DIMENSION) =>
        /\ DrawnSize = <<DrawnFile.width, DrawnFile.height>>
        /\ lastOp = "staged" =>
               selectedImages[Len(selectedImages)].data =
                   <<"jpeg80", DrawnFile, DrawnFile.width, DrawnFile.height>>

\* C26 witness: a 1024 x 512 image has been converted and staged at its
\* own size.
C26_Witness ==
    /\ CanvasDrawn
    /\ lastOp = "staged"
    /\ DrawnFile = Picture("photo.jpg", 1024, 512)
    /\ DrawnSize = <<1024, 512>>

HeldUrls == Len(selectedImages) + SumPushed(adds)

\* C28: every preview handle created for a staged image is released when
\* that image is removed by removeImage or dropped by reset: in every
\* reachable state the live preview handles are those of the images
\* currently staged (or converted by a call that has yet to stage them).
C28_PreviewHandlesReleased == objectUrls = HeldUrls

\* C29: the ids of the images in stagedImages are pairwise distinct in
\* every reachable state, so removeImage(id) removes exactly one staged
\* image.
C29_IdsPairwiseDistinct ==
    \A i, j \in DOMAIN selectedImages :
        selectedImages[i].id = selectedImages[j].id => i = j

\* C30: a request is immutable once built.  The step that triggers
\* analyze() puts in flight a request carrying exactly the images staged at
\* that moment, and every other step (images added, removed or dropped
\* while requests are in flight, or a request being answered) leaves the
\* payload of every request that stays in flight as it was.
C30_RequestImmutableOnceBuilt ==
    [][ /\ lastOp' = "analyze" =>
            /\ Len(inflight') = Len(inflight) + 1
            /\ SubSeq(inflight', 1, Len(inflight)) = inflight
            /\ inflight'[Len(inflight')].payload = Payload(selectedImages)
        /\ lastOp' # "analyze" =>
            \/ inflight' = inflight
            \/ \E k \in DOMAIN inflight : inflight' = RemoveAt(inflight, k)
      ]_vars

\* A request handed to the backend is in flight and the staged images have
\* since been added to or removed from, so they differ from what it carries.
C30_Witness ==
    /\ lastOp \in {"staged", "remove"}
    /\ \E k \in Outstanding : inflight[k].payload # Payload(selectedImages)


\* C31: analyze() never modifies stagedImages.  When a request is answered,
\* with a failure or with a result, the staged list is exactly the list
\* that was staged when that analyze() was triggered, which is the list
\* the request carries (C30).
C31_AnalyzeKeepsStagedImages ==
    [][ lastOp' \in {"analyzeOk", "analyzeFailed"} =>
            \E k \in DOMAIN inflight :
                /\ inflight' = RemoveAt(inflight, k)
                /\ Payload(selectedImages') = inflight[k].payload
      ]_vars


\* C32: whenever phase is RESULT the stored result is the normalized
\* response of the most recently issued analyze request.  Requests are kept
\* in the order they were issued, so a step that stores a result answers
\* the last request in flight: a request with a more recent one behind it
\* never sets or replaces the result.
C32_ResultOfLatestRequest ==
    [][ lastOp' = "analyzeOk" =>
            inflight' = SubSeq(inflight, 1, Len(inflight) - 1)
      ]_vars


\* C33: whenever phase is RESULT, lastError is unset, also when an
\* addImages call that started before analyze() fails while the request is
\* in flight.
C33_ResultHasNoError == viewState = "RESULT" => error = Null


\* ------------------------------------------------- conversion, event by event
\* One handleImagesSelect call followed through the events of its
\* conversions: the FileReader's load or error event, then the Image's load
\* or error event.  The conversion of the current file waits for the reader
\* after the call started or the previous file was pushed, and for the
\* decoder after the reader's load event.
ConvertFiles == {FileA, FileNotImage, FileBroken}

CurrentFile == adds[1].files[Len(adds[1].newImages) + 1]

Reading == adds # <<>> /\ lastOp \in {"select", "pushed"}

Decoding == adds # <<>> /\ lastOp = "decoding"

\* Mutant of ReaderLoad: the handler takes the branch in which
\* readerEvent.target.result is missing, and img.src is never assigned.
ReaderLoadDropped ==
    /\ Reading
    /\ Reads(CurrentFile)
    /\ lastOp' = "dropped"
    /\ UNCHANGED <<viewState, selectedImages, result, error, apiKey, service,
                   objectUrls, adds, inflight, lastOutcome>>

\* reader.onload: the data URL is assigned to img.src.
ReaderLoad ==
    /\ Reading
    /\ Reads(CurrentFile)
    /\ lastOp' = "decoding"
    /\ UNCHANGED <<viewState, selectedImages, result, error, apiKey, service,
                   objectUrls, adds, inflight, lastOutcome>>

\* reader.onerror: the conversion rejects and the call's catch block runs.
ReaderError == Reading /\ ~Reads(CurrentFile) /\ ImagesSelectReject(1)

\* img.onload: the conversion resolves and the call goes on.
ImageLoad == Decoding /\ \E id \in Ids : ImagesSelectResolve(1, id)

\* img.onerror: the conversion rejects and the call's catch block runs.
ImageError == Decoding /\ ImagesSelectReject(1)

UserSelectFiles ==
    /\ lastOp = "init"
    /\ CameraInputRendered
    /\ \E files \in FileLists(ConvertFiles) : handleImagesSelect(files)

InitConvert == Init /\ service # "geminiScored"

NextConvert ==
    \/ UserSelectFiles
    \/ ReaderLoad
    \/ ReaderError
    \/ ImageLoad
    \/ ImageError

\* The browser delivers every event of a reader and of a decoder that has
\* been started.
SpecConvert ==
    /\ InitConvert
    /\ [][NextConvert]_vars
    /\ WF_vars(ReaderLoad)
    /\ WF_vars(ReaderError)
    /\ WF_vars(ImageLoad)
    /\ WF_vars(ImageError)

\* The current conversion has resolved (its image is pushed, or staged with
\* the batch) or rejected.
Settled == lastOp \in {"pushed", "staged", "readFailed", "readFailedLate"}

\* C34: every call of the image normalizer eventually settles.  With the
\* reader's and the decoder's events delivered fairly, a conversion that
\* waits for the reader leads to its resolution or rejection, and a pending
\* handleImagesSelect call leads to the call having ended.
C34_NormalizerSettles ==
    /\ Reading ~> Settled
    /\ (adds # <<>>) ~> (adds = <<>>)

\* A call of two files has ended with both conversions resolved.
C34_Witness ==
    /\ adds = <<>>
    /\ lastOp = "staged"
    /\ Len(selectedImages) = 2


\* JSON.stringify, by the document its text denotes: a number that is not
\* finite is written as null, an undefined array element as null, an
\* undefined property is left out, every other value is written as it is.
RECURSIVE Serialized(_)
Serialized(j) ==
    CASE j.t = "inf" -> JNull
      [] j.t = "arr" ->
            JArr([i \in DOMAIN j.v |->
                     IF j.v[i].t = "undefined" THEN JNull ELSE Serialized(j.v[i])])
      [] j.t = "obj" ->
            JObj([key \in {k \in DOMAIN j.v : j.v[k].t # "undefined"} |->
                     Serialized(j.v[key])])
      [] OTHER -> j

\* The response whose text is JSON.stringify(data).
SerializedResponse(data) ==
    [kind |-> "text", text |-> "json", json |-> Serialized(JObj(data))]

\* C35: the result normalizer is idempotent.  When a response has been
\* normalized to a result, normalizing the JSON serialization of that
\* result returns the same result, field for field.
C35_NormalizerIdempotent ==
    lastOp = "analyzeOk" =>
        Analysis([payload |-> Payload(selectedImages), sent |-> TRUE],
                 SerializedResponse(result[1])) = Ok(result[1])

====
